---- MODULE Spec2Model ----
(***************************************************************************)
(* Model of modoboa_installer/utils.py: the version packing function       *)
(* convert_version_to_int, the ENV map with the settings() context         *)
(* manager, and the backup / copy / template helpers over a file system.   *)
(*                                                                         *)
(* Strings are sequences of one-character strings, so that split() and     *)
(* int() are computed character by character.                              *)
(***************************************************************************)
EXTENDS Integers, Sequences, FiniteSets, TLC

VARIABLES
    version,        \* argument of convert_version_to_int
    outcome,        \* what the call returned or raised
    other,          \* argument of a second call
    otherOutcome,   \* what the second call returned or raised
    ENV,            \* the module's global settings map
    blocks,         \* the settings() blocks now open, innermost last
    exited,         \* how the last step left a settings() block, if it did
    lastCmd,        \* what the last step ran with exec_cmd, if it did
    fs,             \* the files: path |-> content
    dest,           \* the destination file the calls are made on
    pc,             \* where copy_from_template stands, "idle" between calls
    call,           \* the call in progress or made last, with its locals
    ncalls,         \* number of calls made
    allOk           \* no call so far has raised

varsVer == <<version, outcome, other, otherOutcome>>

varsEnv == <<ENV, blocks, exited, lastCmd>>

varsFs == <<fs, dest, pc, call, ncalls, allOk>>

vars ==
    <<version, outcome, other, otherOutcome, ENV, blocks, exited, lastCmd,
      fs, dest, pc, call, ncalls, allOk>>

(***************************************************************************)
(* Bounds                                                                  *)
(***************************************************************************)
MaxComponents == 4
MaxPairComponents == 3
MaxDepth == 2
MaxCalls == 3
MaxStamp == 2

(***************************************************************************)
(* Characters and strings                                                  *)
(***************************************************************************)
Digits == <<"0", "1", "2", "3", "4", "5", "6", "7", "8", "9">>

DigitSet == {Digits[i] : i \in 1..Len(Digits)}

DigitVal(c) == (CHOOSE i \in 1..Len(Digits) : Digits[i] = c) - 1

Whitespace == {" "}

RECURSIVE Pow2(_)
Pow2(n) == IF n = 0 THEN 1 ELSE 2 * Pow2(n - 1)

\* Python integers are unbounded and the packed result needs 33 bits with
\* its sign, so a result is kept as two limbs:  hi * 2^16 + lo  with
\* 0 <= lo < 2^16  and hi of either sign.
Limb == 65536

Big(n) == [hi |-> n \div Limb, lo |-> n % Limb]

BigAdd(a, b) ==
    LET s == a.lo + b.lo
    IN  [hi |-> a.hi + b.hi + (s \div Limb), lo |-> s % Limb]

BigLess(a, b) == a.hi < b.hi \/ (a.hi = b.hi /\ a.lo < b.lo)

\* Python's  a << n  (negative a included), as a two-limb integer.
Shl(a, n) ==
    IF n >= 16 THEN [hi |-> a * Pow2(n - 16), lo |-> 0] ELSE Big(a * Pow2(n))

\* str.split(".") : always at least one piece, pieces may be empty.
RECURSIVE SplitFrom(_, _, _)
SplitFrom(s, cur, acc) ==
    IF s = <<>> THEN Append(acc, cur)
    ELSE IF Head(s) = "." THEN SplitFrom(Tail(s), <<>>, Append(acc, cur))
    ELSE SplitFrom(Tail(s), Append(cur, Head(s)), acc)

Split(s) == SplitFrom(s, <<>>, <<>>)

RECURSIVE LStrip(_)
LStrip(s) == IF s # <<>> /\ Head(s) \in Whitespace THEN LStrip(Tail(s)) ELSE s

RECURSIVE RStrip(_)
RStrip(s) ==
    IF s # <<>> /\ s[Len(s)] \in Whitespace
    THEN RStrip(SubSeq(s, 1, Len(s) - 1)) ELSE s

RECURSIVE DecVal(_, _)
DecVal(s, acc) ==
    IF s = <<>> THEN acc ELSE DecVal(Tail(s), 10 * acc + DigitVal(Head(s)))

\* int(number_string): surrounding whitespace is stripped, one optional sign
\* is read, then at least one decimal digit and nothing else.  (The alphabet
\* of the model has no "_" and no non-ASCII digit.)
PyInt(s) ==
    LET t == RStrip(LStrip(s))
        signed == t # <<>> /\ Head(t) \in {"+", "-"}
        body == IF signed THEN Tail(t) ELSE t
        sign == IF signed /\ Head(t) = "-" THEN -1 ELSE 1
    IN  IF body = <<>> \/ \E i \in 1..Len(body) : body[i] \notin DigitSet
        THEN [ok |-> FALSE, val |-> 0]
        ELSE [ok |-> TRUE, val |-> sign * DecVal(body, 0)]

(***************************************************************************)
(* convert_version_to_int                                                  *)
(***************************************************************************)
number_bits == <<8, 8, 16>>

Returned(n) == [exc |-> "None", msg |-> "", value |-> n]

Raised(e, m) == [exc |-> e, msg |-> m, value |-> Big(0)]

Pending == [exc |-> "None", msg |-> "pending", value |-> Big(0)]

\* len(numbers) > len(number_bits)
TooManyOffByOne(numbers) == Len(numbers) >= Len(number_bits)

TooMany(numbers) == Len(numbers) > Len(number_bits)

\* numbers.extend([0] * (len(number_bits) - len(numbers)))
ExtendNothing(numbers) == numbers

Extend(numbers) ==
    numbers \o [i \in 1..(Len(number_bits) - Len(numbers)) |-> 0]

\* list(zip(numbers, number_bits)): as long as the shorter of the two.
Zip(numbers) ==
    LET n == IF Len(numbers) < Len(number_bits)
             THEN Len(numbers) ELSE Len(number_bits)
    IN  [i \in 1..n |-> <<numbers[i], number_bits[i]>>]

Reverse(s) == [i \in 1..Len(s) |-> s[Len(s) + 1 - i]]

\* reversed(list(zip(numbers, number_bits)))
PairsNotReversed(numbers) == Zip(numbers)

Pairs(numbers) == Reverse(Zip(numbers))

max_num(bits) == (bits + 1) - 1

\* num >= 1 << max_num
TooBigAsLimit(num, bits) == num >= max_num(bits) + 1

TooBigOffByOne(num, bits) == num > Pow2(max_num(bits))

TooBig(num, bits) == num >= Pow2(max_num(bits))

\* The for loop: one iteration per pair, raising at the first number that
\* does not fit.
RECURSIVE Loop(_, _, _)
Loop(pairs, number, total_bits) ==
    IF pairs = <<>> THEN Returned(number)
    ELSE LET num == Head(pairs)[1]
             bits == Head(pairs)[2]
         IN  IF TooBig(num, bits)
             THEN Raised("ValueError", "cannot be stored")
             ELSE Loop(Tail(pairs), BigAdd(number, Shl(num, total_bits)),
                       total_bits + bits)

convert_version_to_int(v) ==
    LET strings == Split(v)
        parsed == [i \in 1..Len(strings) |-> PyInt(strings[i])]
        numbers == [i \in 1..Len(strings) |-> parsed[i].val]
    IN  IF \E i \in 1..Len(strings) : ~parsed[i].ok
        THEN Raised("ValueError", "invalid literal")
        ELSE IF TooMany(numbers)
        THEN Raised("NotImplementedError", "not supported")
        ELSE Loop(Pairs(Extend(numbers)), Big(0), 0)

(***************************************************************************)
(* ENV, settings() and exec_cmd                                            *)
(***************************************************************************)
Keys == {"sudo_user", "debug"}

\* The values a caller gives each key.
ValuesOf(key) == IF key = "debug" THEN {"True"} ELSE {"postgres", "vmail"}

EmptyEnv == [k \in {} |-> "postgres"]

\* **kwargs: keyword/value pairs in call order, no keyword twice.
KwargsSet ==
    { kw \in UNION { [1..n -> Keys \X UNION {ValuesOf(k) : k \in Keys}] :
                      n \in 0..Cardinality(Keys) } :
        /\ \A i \in 1..Len(kw) : kw[i][2] \in ValuesOf(kw[i][1])
        /\ \A i, j \in 1..Len(kw) : kw[i][1] = kw[j][1] => i = j }

\* ENV[key] = value
SetItem(env, key, value) ==
    [k \in DOMAIN env \cup {key} |-> IF k = key THEN value ELSE env[k]]

\* del ENV[key], for a key that is present
DelItem(env, key) == [k \in DOMAIN env \ {key} |-> env[k]]

\* for key, value in kwargs.items(): ENV[key] = value
RECURSIVE SetAll(_, _)
SetAll(env, kw) ==
    IF kw = <<>> THEN env
    ELSE SetAll(SetItem(env, Head(kw)[1], Head(kw)[2]), Tail(kw))

\* for key in kwargs.keys(): del ENV[key]    (KeyError at the first key that
\* is not in ENV; the keys before it are already deleted)
RECURSIVE DelAll(_, _)
DelAll(env, kw) ==
    IF kw = <<>> THEN [env |-> env, raised |-> FALSE]
    ELSE IF Head(kw)[1] \notin DOMAIN env THEN [env |-> env, raised |-> TRUE]
    ELSE DelAll(DelItem(env, Head(kw)[1]), Tail(kw))

NoExit == [left |-> FALSE, raised |-> FALSE, entered |-> EmptyEnv, after |-> EmptyEnv]

NoCmd == [sudo_user |-> "None", capture_output |-> FALSE]

InitEnv ==
    /\ ENV = EmptyEnv
    /\ blocks = <<>>
    /\ exited = NoExit
    /\ lastCmd = NoCmd

\* with settings(**kwargs):  up to the yield
Enter(kw) ==
    /\ Len(blocks) < MaxDepth
    /\ ENV' = SetAll(ENV, kw)
    /\ blocks' = Append(blocks, [kwargs |-> kw, entered |-> ENV])
    /\ exited' = NoExit
    /\ lastCmd' = NoCmd
    /\ UNCHANGED <<varsVer, varsFs>>

\* The body of the innermost block ends normally: the code after the yield.
\* A KeyError leaves through the enclosing blocks up to a handler, and no
\* block it leaves through runs its code after the yield.
Exit ==
    /\ blocks # <<>>
    /\ LET top == blocks[Len(blocks)]
           r == DelAll(ENV, top.kwargs)
       IN  /\ ENV' = r.env
           /\ exited' = [left |-> TRUE, raised |-> r.raised,
                         entered |-> top.entered, after |-> r.env]
           /\ IF r.raised
              THEN \E n \in 0..(Len(blocks) - 1) : blocks' = SubSeq(blocks, 1, n)
              ELSE blocks' = SubSeq(blocks, 1, Len(blocks) - 1)
    /\ lastCmd' = NoCmd
    /\ UNCHANGED <<varsVer, varsFs>>

\* The body of the innermost block raises: the exception is thrown into the
\* generator at the yield and nothing after the yield runs.
Abort ==
    /\ blocks # <<>>
    /\ \E n \in 0..(Len(blocks) - 1) : blocks' = SubSeq(blocks, 1, n)
    /\ exited' = [left |-> TRUE, raised |-> TRUE,
                  entered |-> blocks[Len(blocks)].entered, after |-> ENV]
    /\ lastCmd' = NoCmd
    /\ UNCHANGED ENV
    /\ UNCHANGED <<varsVer, varsFs>>

\* ENV.get(key, default)
Get(env, key, default) == IF key \in DOMAIN env THEN env[key] ELSE default

\* exec_cmd: the user the command runs as (sudo_user of ENV before the
\* argument) and whether its output is captured (the capture_output keyword,
\* and without it: unless ENV has debug).
ExecCmd(sudo_user, capture) ==
    /\ lastCmd' =
          [sudo_user |-> Get(ENV, "sudo_user", sudo_user),
           capture_output |->
              IF capture # "unset" THEN capture = "yes"
              ELSE Get(ENV, "debug", "None") = "None"]
    /\ exited' = NoExit
    /\ UNCHANGED <<ENV, blocks>>
    /\ UNCHANGED <<varsVer, varsFs>>

(***************************************************************************)
(* Files: backup_file, copy_file, copy_from_template                       *)
(*                                                                         *)
(* A path is a tuple: <<name>>, and <<name, "old", t>> for "name.old.<t>"  *)
(* where t stands for datetime.datetime.now().isoformat().  A content is   *)
(* a sequence of tokens.  There are no directories.                        *)
(***************************************************************************)
Stamps == 1..MaxStamp

Lit(x) == [kind |-> "lit", text |-> x, at |-> 0]

\* %name or %{name}
Var(k) == [kind |-> "var", text |-> k, at |-> 0]

\* %%
Esc == [kind |-> "esc", text |-> "%", at |-> 0]

\* a delimiter that starts no valid placeholder
Bad == [kind |-> "bad", text |-> "%", at |-> 0]

\* "# This file was automatically installed on {}\n".format(now)
Header(now) ==
    [kind |-> "lit", text |-> "# This file was automatically installed on", at |-> now]

\* ConfigFileTemplate(buf).substitute(context), token by token from the left.
RECURSIVE Substitute(_, _, _)
Substitute(buf, context, out) ==
    IF buf = <<>> THEN [exc |-> "None", out |-> out]
    ELSE LET tok == Head(buf)
         IN  CASE tok.kind = "lit" -> Substitute(Tail(buf), context, Append(out, tok))
               [] tok.kind = "esc" -> Substitute(Tail(buf), context, Append(out, Lit("%")))
               [] tok.kind = "var" ->
                    IF tok.text \in DOMAIN context
                    THEN Substitute(Tail(buf), context, Append(out, Lit(context[tok.text])))
                    ELSE [exc |-> "KeyError", out |-> <<>>]
               [] OTHER -> [exc |-> "ValueError", out |-> <<>>]

\* os.path.isfile(p)
IsFile(f, p) == p \in DOMAIN f

\* Names with a character that glob reads as a wildcard.
MagicNames == {"conf[1]"}

BakName(fname, t) == fname \o <<"old", t>>

\* The files named "<fname>.old.<anything>".
Backups(f, fname) ==
    { p \in DOMAIN f : /\ Len(p) >= Len(fname) + 2
                       /\ SubSeq(p, 1, Len(fname)) = fname
                       /\ p[Len(fname) + 1] = "old" }

\* glob.glob("{}.old.*".format(fname)): fname is not escaped, so "[1]" in it
\* matches the character "1" and not itself, and the pattern matches none of
\* the file's own backups.
GlobOld(f, fname) ==
    IF \E i \in 1..Len(fname) : fname[i] \in MagicNames THEN {} ELSE Backups(f, fname)

\* os.unlink of each file of S
Unlink(f, S) == [q \in DOMAIN f \ S |-> f[q]]

\* shutil.copy(src, dst), src an existing file
Copy(f, src, dst) == [q \in DOMAIN f \cup {dst} |-> IF q = dst THEN f[src] ELSE f[q]]

\* backup_file(fname), the new backup stamped t
BackupFile(f, fname, t) ==
    LET g == Unlink(f, GlobOld(f, fname))
    IN  IF IsFile(g, fname)
        THEN [fs |-> Copy(g, fname, BakName(fname, t)), exc |-> "None"]
        ELSE [fs |-> g, exc |-> "FileNotFoundError"]

\* copy_file(src, dst)
CopyFileOp(f, src, dst, t) ==
    LET b == IF IsFile(f, dst) THEN BackupFile(f, dst, t)
                               ELSE [fs |-> f, exc |-> "None"]
    IN  IF b.exc # "None" THEN b
        ELSE IF ~IsFile(b.fs, src) THEN [fs |-> b.fs, exc |-> "FileNotFoundError"]
        ELSE IF src = dst THEN [fs |-> b.fs, exc |-> "SameFileError"]
        ELSE [fs |-> Copy(b.fs, src, dst), exc |-> "None"]

Contexts == { [k \in {} |-> "v"], [k \in {"domain"} |-> "v"] }

TemplateContents ==
    { <<Lit("x"), Var("domain")>>, <<Esc, Var("domain"), Bad>> }

Dests == { <<"conf">>, <<"conf[1]">> }

NoCall ==
    [kind |-> "none", src |-> <<>>, context |-> [k \in {} |-> "v"], now |-> 0,
     buf |-> <<>>, existed |-> FALSE, prior |-> <<>>, touched |-> FALSE,
     exc |-> "None"]

\* What a call finds on entry.
Entry(kind, src) ==
    [NoCall EXCEPT !.kind = kind, !.src = src,
                   !.existed = IsFile(fs, dest),
                   !.prior = IF IsFile(fs, dest) THEN fs[dest] ELSE <<>>]

InitFs ==
    /\ dest \in Dests
    /\ \E tc \in TemplateContents, d \in {0, 1} :
          fs = [q \in {<<"src">>, <<"tpl">>} \cup (IF d = 1 THEN {dest} ELSE {})
                  |-> IF q = <<"src">> THEN <<Lit("s")>>
                      ELSE IF q = <<"tpl">> THEN tc ELSE <<Lit("a")>>]
    /\ pc = "idle"
    /\ call = NoCall
    /\ ncalls = 0
    /\ allOk = TRUE

IdleFs ==
    /\ dest = <<"conf">>
    /\ fs = [q \in {} |-> <<>>]
    /\ pc = "idle"
    /\ call = NoCall
    /\ ncalls = 0
    /\ allOk = TRUE

CanCall == pc = "idle" /\ ncalls < MaxCalls

\* backup_file(dest)
BackupFileCall(t) ==
    /\ CanCall
    /\ LET r == BackupFile(fs, dest, t)
       IN  /\ fs' = r.fs
           /\ call' = [Entry("backup_file", dest) EXCEPT !.exc = r.exc]
           /\ allOk' = (allOk /\ r.exc = "None")
    /\ ncalls' = ncalls + 1
    /\ UNCHANGED <<dest, pc>>
    /\ UNCHANGED <<varsVer, varsEnv>>

\* copy_file(src, dest)
CopyFileCall(src, t) ==
    /\ CanCall
    /\ LET r == CopyFileOp(fs, src, dest, t)
       IN  /\ fs' = r.fs
           /\ call' = [Entry("copy_file", src) EXCEPT
                          !.exc = r.exc, !.touched = (r.exc = "None")]
           /\ allOk' = (allOk /\ r.exc = "None")
    /\ ncalls' = ncalls + 1
    /\ UNCHANGED <<dest, pc>>
    /\ UNCHANGED <<varsVer, varsEnv>>

\* copy_from_template(template, dest, context): now is taken and the
\* template is read into buf.
TemplateRead(template, context, now) ==
    /\ CanCall
    /\ ncalls' = ncalls + 1
    /\ IF IsFile(fs, template)
       THEN /\ call' = [Entry("copy_from_template", template) EXCEPT
                           !.context = context, !.now = now, !.buf = fs[template]]
            /\ pc' = "backup"
            /\ UNCHANGED allOk
       ELSE /\ call' = [Entry("copy_from_template", template) EXCEPT
                           !.context = context, !.now = now,
                           !.exc = "FileNotFoundError"]
            /\ pc' = "idle"
            /\ allOk' = FALSE
    /\ UNCHANGED <<fs, dest>>
    /\ UNCHANGED <<varsVer, varsEnv>>

\* if os.path.isfile(dest): backup_file(dest)
TemplateBackupSkipped(t) ==
    /\ pc = "backup"
    /\ pc' = "open"
    /\ UNCHANGED <<fs, dest, call, ncalls, allOk>>
    /\ UNCHANGED <<varsVer, varsEnv>>

TemplateBackup(t) ==
    /\ pc = "backup"
    /\ fs' = IF IsFile(fs, dest) THEN BackupFile(fs, dest, t).fs ELSE fs
    /\ pc' = "open"
    /\ UNCHANGED <<dest, call, ncalls, allOk>>
    /\ UNCHANGED <<varsVer, varsEnv>>

\* open(dest, "w"): dest is created or truncated.
TemplateOpen ==
    /\ pc = "open"
    /\ fs' = [q \in DOMAIN fs \cup {dest} |-> IF q = dest THEN <<>> ELSE fs[q]]
    /\ call' = [call EXCEPT !.touched = TRUE]
    /\ pc' = "write"
    /\ UNCHANGED <<dest, ncalls, allOk>>
    /\ UNCHANGED <<varsVer, varsEnv>>

\* The two fp.write calls and the end of the with block: the header is
\* written, substitute() returns or raises, and the file is closed.
TemplateWrite ==
    /\ pc = "write"
    /\ LET r == Substitute(call.buf, call.context, <<>>)
       IN  /\ fs' = [fs EXCEPT ![dest] = <<Header(call.now)>> \o r.out]
           /\ call' = [call EXCEPT !.exc = r.exc]
           /\ allOk' = (allOk /\ r.exc = "None")
    /\ pc' = "idle"
    /\ UNCHANGED <<dest, ncalls>>
    /\ UNCHANGED <<varsVer, varsEnv>>

NextFs ==
    \/ \E t \in Stamps : BackupFileCall(t)
    \/ \E src \in DOMAIN fs \cup {<<"gone">>}, t \in Stamps : CopyFileCall(src, t)
    \/ \E template \in {<<"tpl">>, <<"gone">>}, context \in Contexts, now \in Stamps :
          TemplateRead(template, context, now)
    \/ \E t \in Stamps : TemplateBackup(t)
    \/ TemplateOpen
    \/ TemplateWrite

(***************************************************************************)
(* Inputs                                                                  *)
(***************************************************************************)
Pieces ==
    { <<>>, <<"0">>, <<"1">>, <<"2">>, <<"3">>, <<"9">>,
      <<"2", "5", "5">>, <<"2", "5", "6">>,
      <<"6", "5", "5", "3", "5">>, <<"6", "5", "5", "3", "6">>,
      <<"a">>, <<"-", "1">>, <<" ", "+", "7">> }

PairPieces ==
    { <<"0">>, <<"1">>, <<"2", "5", "5">>, <<"-", "1">>,
      <<"6", "5", "5", "3", "5">> }

RECURSIVE Join(_)
Join(ps) ==
    IF Len(ps) = 1 THEN ps[1] ELSE ps[1] \o <<".">> \o Join(Tail(ps))

\* The pieces tried after the third one.
TailPieces == { <<"0">>, <<"9">>, <<"a">> }

\* v is at most n pieces joined by dots: the first three are pieces of P, the
\* ones after them pieces of TailPieces.
IsVersionOver(v, P, n) ==
    \E k \in 1..n :
        LET h == IF k < Len(number_bits) THEN k ELSE Len(number_bits)
        IN  \E hd \in [1..h -> P], tl \in [1..(k - h) -> TailPieces] :
               v = Join(hd \o tl)

(***************************************************************************)
(* One call: SpecVer.   Two calls whose results are compared: SpecPair.    *)
(***************************************************************************)
InitVer ==
    /\ IsVersionOver(version, Pieces, MaxComponents)
    /\ outcome = Pending
    /\ other = <<>>
    /\ otherOutcome = Pending
    /\ InitEnv
    /\ IdleFs

Convert ==
    /\ outcome = Pending
    /\ outcome' = convert_version_to_int(version)
    /\ UNCHANGED <<version, other, otherOutcome>>
    /\ UNCHANGED <<varsEnv, varsFs>>

NextVer == Convert

SpecVer == InitVer /\ [][NextVer]_vars

InitPair ==
    /\ IsVersionOver(version, PairPieces, MaxPairComponents)
    /\ IsVersionOver(other, PairPieces, MaxPairComponents)
    /\ outcome = Pending
    /\ otherOutcome = Pending
    /\ InitEnv
    /\ IdleFs

ConvertOther ==
    /\ outcome # Pending
    /\ otherOutcome = Pending
    /\ otherOutcome' = convert_version_to_int(other)
    /\ UNCHANGED <<version, other, outcome>>
    /\ UNCHANGED <<varsEnv, varsFs>>

NextPair == Convert \/ ConvertOther

SpecPair == InitPair /\ [][NextPair]_vars

NextEnv ==
    \/ \E kw \in KwargsSet : Enter(kw)
    \/ Exit
    \/ Abort
    \/ \E u \in {"None", "root"}, c \in {"unset", "no"} : ExecCmd(u, c)

IdleVer ==
    /\ version = <<>>
    /\ outcome = Pending
    /\ other = <<>>
    /\ otherOutcome = Pending

InitSettings ==
    /\ IdleVer
    /\ InitEnv
    /\ IdleFs

SpecEnv == InitSettings /\ [][NextEnv]_vars

InitFiles ==
    /\ IdleVer
    /\ InitEnv
    /\ InitFs

SpecFs == InitFiles /\ [][NextFs]_vars

\* C9: while a settings block is the innermost one its keywords are in ENV
\* with their values, and a block left normally leaves ENV as it was when
\* the block was entered.
C9_TemporarySettings ==
    /\ \A i \in 1..Len(blocks) :
          \A j \in 1..Len(blocks[i].kwargs) :
             LET k == blocks[i].kwargs[j][1]
                 v == blocks[i].kwargs[j][2]
             IN  i = Len(blocks) => (k \in DOMAIN ENV /\ ENV[k] = v)
    /\ (exited.left /\ ~exited.raised) => exited.after = exited.entered

(***************************************************************************)
(* Properties of convert_version_to_int                                    *)
(***************************************************************************)
Done == outcome.msg # "pending"

OtherDone == otherOutcome.msg # "pending"

Accepted(o) == o.msg = "" /\ o.exc = "None"

FormatError(o) == o.exc = "ValueError" /\ o.msg = "invalid literal"

OutOfRangeError(o) == o.exc = "ValueError" /\ o.msg = "cannot be stored"

Unsupported(o) == o.exc = "NotImplementedError"

Str(v) == Split(v)

AllDigits(s) == s # <<>> /\ \A i \in 1..Len(s) : s[i] \in DigitSet

\* The pieces are all integer literals: digits with an optional sign and
\* optional surrounding blanks.
Numeric(v) ==
    \A i \in 1..Len(Str(v)) :
        LET t == RStrip(LStrip(Str(v)[i]))
        IN  AllDigits(t) \/ (t # <<>> /\ Head(t) \in {"+", "-"} /\ AllDigits(Tail(t)))

\* The component at position i (1 = major), zero when it is missing.
Component(v, i) == IF i <= Len(Str(v)) THEN PyInt(Str(v)[i]).val ELSE 0

Triple(v) == <<Component(v, 1), Component(v, 2), Component(v, 3)>>

V123 == <<"1", ".", "2", ".", "3">>

\* C1: an accepted version of exactly three components yields
\* (major << 24) + (minor << 16) + patch; with non-negative components the
\* patch is bits 0-15, the minor bits 16-23 and the major bits 24-31, and
\* "1.2.3" yields 16908291.
C1_PackedValue ==
    (Done /\ Accepted(outcome) /\ Len(Str(version)) = 3) =>
        LET major == Component(version, 1)
            minor == Component(version, 2)
            patch == Component(version, 3)
        IN  /\ outcome.value = [hi |-> major * 256 + minor + (patch \div Limb),
                                lo |-> patch % Limb]
            /\ (major >= 0 /\ minor >= 0 /\ patch >= 0) =>
                  /\ outcome.value.lo = patch
                  /\ outcome.value.hi % 256 = minor
                  /\ outcome.value.hi \div 256 = major
            /\ version = V123 =>
                  outcome.value.hi * Limb + outcome.value.lo = 16908291

C1_Witness ==
    /\ Done
    /\ version = V123
    /\ outcome = Returned([hi |-> 258, lo |-> 3])

\* C2: for an input of one to three integer components, the out-of-range
\* error is raised exactly when some component is greater than 2^b - 1 for
\* its width b (8, 8, 16).
C2_RangeCheck ==
    (Done /\ Numeric(version) /\ Len(Str(version)) <= 3) =>
        (OutOfRangeError(outcome) <=>
            \E i \in 1..3 : Component(version, i) > Pow2(number_bits[i]) - 1)

C2_Witness ==
    /\ Done
    /\ version = <<"0", ".", "2", "5", "6", ".", "0">>
    /\ OutOfRangeError(outcome)

\* C3 as stated: an 8-bit component (major or minor) of value 9 or more is
\* rejected with the out-of-range error.
C3_RejectsFromNine ==
    (Done /\ Numeric(version) /\ Len(Str(version)) <= 3
          /\ (Component(version, 1) >= 9 \/ Component(version, 2) >= 9)) =>
        OutOfRangeError(outcome)

\* C3 amended: the limit 1 << ((bits + 1) - 1) is 2^bits, so an 8-bit
\* component from 9 to 255 is not rejected: with every component within its
\* width the call returns, and "9.0.0" yields 9 << 24.
C3_AcceptsNineTo255 ==
    (Done /\ Numeric(version) /\ Len(Str(version)) <= 3
          /\ (Component(version, 1) \in 9..255 \/ Component(version, 2) \in 9..255)
          /\ Component(version, 1) <= 255
          /\ Component(version, 2) <= 255
          /\ Component(version, 3) <= 65535) =>
        /\ Accepted(outcome)
        /\ Triple(version) = <<9, 0, 0>> => outcome.value = [hi |-> 9 * 256, lo |-> 0]

C3_Witness ==
    /\ Done
    /\ version = <<"9", ".", "0", ".", "0">>
    /\ outcome = Returned([hi |-> 2304, lo |-> 0])

\* The three kinds of piece C4 names: empty, non-numeric, negative.
EmptyPiece(s) == s = <<>>

NonNumericPiece(s) == \E i \in 1..Len(s) : s[i] \notin DigitSet \cup {"+", "-", " "}

NegativePiece(s) == s # <<>> /\ Head(s) = "-" /\ AllDigits(Tail(s))

\* C4: an input with an empty, non-numeric or negative piece fails with the
\* format error.
C4_FormatError ==
    (Done /\ \E i \in 1..Len(Str(version)) :
                 \/ EmptyPiece(Str(version)[i])
                 \/ NonNumericPiece(Str(version)[i])
                 \/ NegativePiece(Str(version)[i])) =>
        FormatError(outcome)

LexLess(a, b) ==
    \/ a[1] < b[1]
    \/ a[1] = b[1] /\ a[2] < b[2]
    \/ a[1] = b[1] /\ a[2] = b[2] /\ a[3] < b[3]

\* C5: two accepted versions have equal results iff their zero-padded triples
\* are equal, and ordered results iff the triples are ordered
\* lexicographically.
C5_OrderPreserving ==
    (Done /\ OtherDone /\ Accepted(outcome) /\ Accepted(otherOutcome)) =>
        /\ (outcome.value = otherOutcome.value) <=> (Triple(version) = Triple(other))
        /\ BigLess(outcome.value, otherOutcome.value)
              <=> LexLess(Triple(version), Triple(other))

\* C6: the unsupported-format error is raised for every input of more than
\* three integer components and for no input of one to three components.
C6_Unsupported ==
    Done =>
        /\ (Numeric(version) /\ Len(Str(version)) > 3) => Unsupported(outcome)
        /\ Len(Str(version)) <= 3 => ~Unsupported(outcome)

C6_Witness ==
    /\ Done
    /\ version = <<"1", ".", "2", ".", "3", ".", "9">>
    /\ Unsupported(outcome)

\* C7: a version of one or two components has the outcome (result or error)
\* of the same version with ".0" appended.
C7_TrailingZero ==
    (Done /\ Len(Str(version)) <= 2) =>
        outcome = convert_version_to_int(version \o <<".", "0">>)

C7_Witness ==
    /\ Done
    /\ version = <<"1", ".", "2">>
    /\ outcome = Returned([hi |-> 258, lo |-> 0])

(***************************************************************************)
(* Properties of the file helpers                                          *)
(***************************************************************************)
\* C8: in a copy_from_template call that found dest existing, once dest has
\* been truncated or written a backup "<dest>.old.<t>" holds what dest held
\* on entry; and a call that returns leaves in dest the header line followed
\* by the template rendered with the context.
C8_BackupBeforeWrite ==
    /\ (call.kind = "copy_from_template" /\ call.existed /\ call.touched) =>
          \E p \in Backups(fs, dest) : Len(p) = Len(dest) + 2 /\ fs[p] = call.prior
    /\ (call.kind = "copy_from_template" /\ pc = "idle" /\ call.exc = "None") =>
          /\ IsFile(fs, dest)
          /\ fs[dest] # <<>>
          /\ Head(fs[dest]) = Header(call.now)
          /\ Tail(fs[dest]) = Substitute(call.buf, call.context, <<>>).out
          /\ \A i \in 1..Len(call.buf) :
                call.buf[i].kind = "var" =>
                   /\ call.buf[i].text \in DOMAIN call.context
                   /\ fs[dest][i + 1] = Lit(call.context[call.buf[i].text])

\* A call that found dest existing has failed in substitute(), after dest was
\* truncated; and a call has returned.
C8_Witness ==
    /\ call.kind = "copy_from_template"
    /\ call.existed
    /\ call.touched
    /\ pc = "idle"
    /\ call.exc = "KeyError"
    /\ fs[dest] = <<Header(call.now)>>
    /\ \E p \in Backups(fs, dest) : fs[p] = <<Lit("a")>>

\* C10: after successful calls at most one backup "<dest>.old.*" exists, and
\* it holds what dest held when the most recent call found it (for copy_file
\* and copy_from_template: immediately before that call replaced it).
C10_SingleBackup ==
    (pc = "idle" /\ allOk /\ ncalls > 0) =>
        /\ Cardinality(Backups(fs, dest)) <= 1
        /\ call.existed =>
              \A p \in Backups(fs, dest) : fs[p] = call.prior

\* What holds of the backups when the name of dest has no glob wildcard.
SingleBackupOfPlainName ==
    (pc = "idle" /\ allOk /\ ncalls > 0 /\ dest[1] \notin MagicNames) =>
        /\ Cardinality(Backups(fs, dest)) <= 1
        /\ call.existed =>
              /\ Cardinality(Backups(fs, dest)) = 1
              /\ \A p \in Backups(fs, dest) : fs[p] = call.prior

====
